---- MODULE Spec2Model ----
(***************************************************************************)
(* Model of sqlite-stddev-extension.c: the circular buffer with running    *)
(* sum / sum of squares behind the stddev / variance aggregate and window  *)
(* functions, driven through the four SQLite callbacks (step, inverse,     *)
(* value, final).                                                          *)
(*                                                                         *)
(* A C double is modelled as a record [cls, num, den]:                     *)
(*   cls = "fin"   the finite number num/den (lowest terms, den > 0)       *)
(*   cls = "inf"   +infinity (num = 1) or -infinity (num = -1)             *)
(*   cls = "nan"   not-a-number                                            *)
(*   cls = "root"  the finite positive irrational sqrt(num/den); only a    *)
(*                 result of sqrt, never an operand                        *)
(*   cls = "uninit" the content of a malloc'ed cell never written          *)
(* The variable arith selects how a finite result is rounded: "real" keeps *)
(* the exact value (the arithmetic of the claims that say "exact           *)
(* arithmetic"; sums of small integers are exact in binary64 too), "bin"   *)
(* rounds to nearest, ties to even, in a binary floating-point format with *)
(* MantBits bits of mantissa, a smallest spacing of 2^-QuantBits and       *)
(* overflow to infinity at 2^OverflowExp: binary64 scaled down.            *)
(* Signed zeros are not distinguished.                                     *)
(*                                                                         *)
(* A C int is an integer up to int_max: INT_MAX of a 32-bit int, or the    *)
(* narrow NarrowIntMax, int scaled down so that the doubling of the        *)
(* capacity reaches the range within a run.                                *)
(***************************************************************************)
EXTENDS Integers, Sequences, FiniteSets, TLC

VARIABLES
    arith,      \* "real" or "bin": the arithmetic of the build (never changes)
    int_max,    \* the largest value of a C int of the build (never changes)
    ctx,        \* TRUE once sqlite3_aggregate_context has allocated the context
    data,       \* ctx->data, the WindowStatsData struct (zeroed until initialised)
    heap,       \* the malloc'ed blocks: heap[p] is the block pointer p names
    result,     \* what the last callback reported through sqlite3_result_*
    lastOp,     \* the last callback invoked, with its argument and inner events
    growth,     \* the buffer before and after the growth event of the last callback
    rows,       \* how many rows entered the frame so far (their step succeeded)
    frame,      \* the rows now in the frame: entered by step, not yet left
    inserted,   \* every value pushed into the buffer since it was initialised
    evicted,    \* how many values were removed from it since then
    grown,      \* how many times it has grown since then
    ncopied     \* how many values growth has copied since then

vars == <<arith, ctx, data, heap, result, lastOp, growth, rows, frame,
          inserted, evicted, grown, ncopied, int_max>>

----------------------------------------------------------------------------
(* Bounds of the model *)

\* rows that enter the frame in one run of Spec
MaxRows == 3
\* buffers initialised in one run of Spec
MaxBlocks == 3
\* rows that enter the frame in one run of SpecGrow (more than INITIAL_CAPACITY)
MaxGrowRows == 104
\* evictions in one run of SpecGrow
MaxGrowEvict == 3
\* rows that enter the frame in one run of SpecFloat
MaxFloatRows == 3
\* rows that enter the frame in one run of SpecLong and SpecNarrow (more than
\* twice INITIAL_CAPACITY)
MaxLongRows == 202
\* evictions in one run of SpecLong and SpecNarrow
MaxLongEvict == 1
\* INT_MAX of the build of SpecNarrow, whose int has 9 bits: int scaled down
NarrowIntMax == 255
\* mantissa bits of the "bin" format
MantBits == 4
\* the "bin" format's smallest spacing is 2^-QuantBits
QuantBits == 4
\* the "bin" format overflows to infinity at 2^OverflowExp
OverflowExp == 6

----------------------------------------------------------------------------
(* Program constants *)

INITIAL_CAPACITY == 100
CAPACITY_GROWTH_FACTOR == 2
\* the null pointer
NULLPTR == 0
\* INT_MAX of a build whose int has 32 bits
INT_MAX == 2147483647

----------------------------------------------------------------------------
(* Doubles *)

Abs(x) == IF x < 0 THEN -x ELSE x

RECURSIVE GCD(_, _)
GCD(a, b) == IF b = 0 THEN a ELSE GCD(b, a % b)

RECURSIVE Pow2(_)
Pow2(n) == IF n = 0 THEN 1 ELSE 2 * Pow2(n - 1)

Fin(n, d) ==
    LET g == GCD(Abs(n), d)
    IN  [cls |-> "fin", num |-> n \div g, den |-> d \div g]

NaN    == [cls |-> "nan", num |-> 0, den |-> 1]
PosInf == [cls |-> "inf", num |-> 1, den |-> 1]
NegInf == [cls |-> "inf", num |-> -1, den |-> 1]
Uninit == [cls |-> "uninit", num |-> 0, den |-> 1]
Zero   == [cls |-> "fin", num |-> 0, den |-> 1]
Inf(s) == IF s < 0 THEN NegInf ELSE PosInf

Sign(x) == IF x.num < 0 THEN -1 ELSE IF x.num > 0 THEN 1 ELSE 0

isnan(x) == x.cls = "nan"
isinf(x) == x.cls = "inf"
IsFin(x) == x.cls = "fin"

\* round-half-even of the non-negative rational n/d to an integer
RoundHalfEven(n, d) ==
    LET q == n \div d
        r == n % d
    IN  IF 2 * r < d THEN q
        ELSE IF 2 * r > d THEN q + 1
        ELSE IF q % 2 = 0 THEN q ELSE q + 1

\* The "bin" rounding of the finite x. In units of the smallest spacing
\* 2^-QuantBits the magnitude is n/d; e is the exponent of the spacing of
\* representable numbers around it.
RoundBin(x) ==
    LET n == Abs(x.num) * Pow2(QuantBits)
        d == x.den
        e == CHOOSE k \in 0..(OverflowExp + QuantBits) :
                 /\ (k = 0 \/ n >= d * Pow2(k + MantBits - 1))
                 /\ (k = OverflowExp + QuantBits \/ n < d * Pow2(k + MantBits))
        m == RoundHalfEven(n, d * Pow2(e))
        k == m * Pow2(e)
    IN  IF k >= Pow2(OverflowExp + QuantBits)
        THEN Inf(Sign(x))
        ELSE Fin(Sign(x) * k, Pow2(QuantBits))

\* every finite result of an operation goes through the build's rounding
Round(x) ==
    IF IsFin(x) /\ arith = "bin" THEN RoundBin(x) ELSE x

Neg(x) == IF x.cls \in {"fin", "inf"} THEN [x EXCEPT !.num = -x.num] ELSE x

DAdd(x, y) ==
    IF isnan(x) \/ isnan(y) THEN NaN
    ELSE IF isinf(x) /\ isinf(y) THEN (IF x = y THEN x ELSE NaN)
    ELSE IF isinf(x) THEN x
    ELSE IF isinf(y) THEN y
    ELSE LET g == GCD(x.den, y.den)
             l == (x.den \div g) * y.den
         IN  Round(Fin(x.num * (l \div x.den) + y.num * (l \div y.den), l))

DSub(x, y) == DAdd(x, Neg(y))

DMul(x, y) ==
    IF isnan(x) \/ isnan(y) THEN NaN
    ELSE IF isinf(x) \/ isinf(y)
         THEN (IF Sign(x) * Sign(y) = 0 THEN NaN ELSE Inf(Sign(x) * Sign(y)))
    ELSE LET g1 == GCD(Abs(x.num), y.den)
             g2 == GCD(Abs(y.num), x.den)
         IN  Round(Fin((x.num \div g1) * (y.num \div g2),
                       (x.den \div g2) * (y.den \div g1)))

DDiv(x, y) ==
    IF isnan(x) \/ isnan(y) THEN NaN
    ELSE IF isinf(x) THEN (IF isinf(y) THEN NaN
                           ELSE Inf(Sign(x) * (IF Sign(y) < 0 THEN -1 ELSE 1)))
    ELSE IF isinf(y) THEN Zero
    ELSE IF y.num = 0 THEN (IF x.num = 0 THEN NaN ELSE Inf(Sign(x)))
    ELSE LET g1 == GCD(Abs(x.num), Abs(y.num))
             g2 == GCD(y.den, x.den)
         IN  Round(Fin(Sign(y) * (x.num \div g1) * (y.den \div g2),
                       (x.den \div g2) * (Abs(y.num) \div g1)))

\* floor(sqrt(n)) by bisection: the root lies in lo..hi
RECURSIVE FloorRoot(_, _, _)
FloorRoot(n, lo, hi) ==
    IF lo >= hi THEN lo
    ELSE LET mid == (lo + hi + 1) \div 2
         IN  IF mid * mid <= n THEN FloorRoot(n, mid, hi)
             ELSE FloorRoot(n, lo, mid - 1)

\* the integer square root of n when n is a perfect square, else -1
ExactRoot(n) ==
    LET r == FloorRoot(n, 0, IF n < 46340 THEN n ELSE 46340)
    IN  IF r * r = n THEN r ELSE -1

\* sqrt in the "bin" format: the representable number nearest to the root.
\* In units of 2^-QuantBits the root of num/den is sqrt(num * 4^QuantBits / den).
SqrtBin(x) ==
    LET n == x.num * Pow2(QuantBits) * Pow2(QuantBits)
        d == x.den
        \* the root's floor; the next representable number is below twice it
        fl == FloorRoot(n \div d, 0, Pow2(OverflowExp + QuantBits))
        Rep == {k \in 0..(2 * fl + 2) :
                   Fin(k, Pow2(QuantBits)) = RoundBin(Fin(k, Pow2(QuantBits)))}
        lo == CHOOSE k \in Rep : /\ k * k * d <= n
                                 /\ \A j \in Rep : j * j * d <= n => j <= k
        Above == {k \in Rep : k > lo}
        hi == IF Above = {} THEN lo
              ELSE CHOOSE k \in Above : \A j \in Above : k <= j
        \* the root is nearer to hi than to lo iff it exceeds their midpoint
        up == (lo + hi) * (lo + hi) * d < 4 * n
    IN  Fin(IF up THEN hi ELSE lo, Pow2(QuantBits))

sqrt(x) ==
    IF isnan(x) THEN NaN
    ELSE IF isinf(x) THEN (IF x = PosInf THEN PosInf ELSE NaN)
    ELSE IF x.num < 0 THEN NaN
    ELSE IF arith = "bin" THEN SqrtBin(x)
    ELSE IF ExactRoot(x.num) >= 0 /\ ExactRoot(x.den) >= 0
         THEN Fin(ExactRoot(x.num), ExactRoot(x.den))
    ELSE [cls |-> "root", num |-> x.num, den |-> x.den]

\* (double)i for a C int i
FromInt(i) == Round(Fin(i, 1))

\* the product of the positive C ints a and b is out of the range of int
mul_overflows(a, b) == a > int_max \div b

\* what a two's-complement build leaves in an int for the out-of-range x
WrapInt(x) == ((x + int_max + 1) % (2 * (int_max + 1))) - (int_max + 1)

----------------------------------------------------------------------------
(* SQLite values, results, the struct and the heap *)

\* a sqlite3_value: its type and, for a number, its value
SqlNull == [type |-> "NULL", val |-> Zero]
SqlText == [type |-> "TEXT", val |-> Zero]
SqlInt(i) == [type |-> "INTEGER", val |-> Fin(i, 1)]
SqlFloat(x) == [type |-> "FLOAT", val |-> x]

sqlite3_value_type(arg) == arg.type

\* an INTEGER is converted to double, a FLOAT is returned as it is
sqlite3_value_double(arg) ==
    IF arg.type = "INTEGER" THEN Round(arg.val) ELSE arg.val

\* what a callback reported
NoResult == [kind |-> "none", val |-> Zero]
sqlite3_result_null == [kind |-> "null", val |-> Zero]
sqlite3_result_double(x) == [kind |-> "double", val |-> x]
sqlite3_result_error == [kind |-> "error", val |-> Zero]
sqlite3_result_error_nomem == [kind |-> "nomem", val |-> Zero]

\* the context as sqlite3_aggregate_context hands it out: all bytes zero
ZeroData ==
    [values |-> NULLPTR, count |-> 0, capacity |-> 0, head |-> 0, tail |-> 0,
     sum |-> Zero, sum_sq |-> Zero]

NoCells == [i \in {} |-> Uninit]

\* malloc(n * sizeof(double)): a new block of n cells never written
Malloc(h, n) ==
    Append(h, [live |-> TRUE, freed |-> 0, cells |-> [i \in 0..(n - 1) |-> Uninit]])

\* how many cells of the block b have been written
Written(b) == Cardinality({i \in DOMAIN b.cells : b.cells[i] # Uninit})

\* free(p); freed counts the calls of free on the block
Free(h, p) ==
    [h EXCEPT ![p] = [live |-> FALSE, freed |-> h[p].freed + 1, cells |-> NoCells]]

----------------------------------------------------------------------------
(* Circular buffer and calculation helpers *)

get_circular_value(d, h, logical_index) ==
    LET physical_index == (d.head + logical_index) % d.capacity
    IN  h[d.values].cells[physical_index]

add_to_circular_buffer(d, h, value) ==
    [d |-> [d EXCEPT !.tail = (d.tail + 1) % d.capacity,
                     !.count = d.count + 1],
     h |-> [h EXCEPT ![d.values].cells[d.tail] = value]]

\* mutant: removes the newest element instead of the oldest
remove_newest(d, h) ==
    IF d.count = 0
    THEN [d |-> d, ret |-> Zero]
    ELSE [d |-> [d EXCEPT !.tail = (d.tail + d.capacity - 1) % d.capacity,
                          !.count = d.count - 1],
          ret |-> h[d.values].cells[(d.tail + d.capacity - 1) % d.capacity]]

\* mutant: the count is not tested before the head is advanced
remove_unguarded(d, h) ==
    [d |-> [d EXCEPT !.head = (d.head + 1) % d.capacity,
                     !.count = d.count - 1],
     ret |-> h[d.values].cells[d.head]]

remove_from_circular_buffer(d, h) ==
    IF d.count = 0
    THEN [d |-> d, ret |-> Zero]
    ELSE [d |-> [d EXCEPT !.head = (d.head + 1) % d.capacity,
                          !.count = d.count - 1],
          ret |-> h[d.values].cells[d.head]]

\* mutant: Bessel's correction is left out
calculate_variance_sample_uncorrected(d) ==
    IF d.count < 2 THEN NaN
    ELSE LET mean == DDiv(d.sum, FromInt(d.count))
         IN  DSub(DDiv(d.sum_sq, FromInt(d.count)), DMul(mean, mean))

calculate_variance_sample(d) ==
    IF d.count < 2 THEN NaN
    ELSE LET mean == DDiv(d.sum, FromInt(d.count))
             variance_pop == DSub(DDiv(d.sum_sq, FromInt(d.count)), DMul(mean, mean))
         IN  DMul(variance_pop, DDiv(FromInt(d.count), FromInt(d.count - 1)))

\* mutant: the mean is not squared
calculate_variance_population_unsquared(d) ==
    IF d.count < 1 THEN NaN
    ELSE LET mean == DDiv(d.sum, FromInt(d.count))
         IN  DSub(DDiv(d.sum_sq, FromInt(d.count)), mean)

calculate_variance_population(d) ==
    IF d.count < 1 THEN NaN
    ELSE LET mean == DDiv(d.sum, FromInt(d.count))
         IN  DSub(DDiv(d.sum_sq, FromInt(d.count)), DMul(mean, mean))

calculate_stddev_sample(d) ==
    LET variance == calculate_variance_sample(d)
    IN  IF isnan(variance) THEN NaN ELSE sqrt(variance)

calculate_stddev_population(d) ==
    LET variance == calculate_variance_population(d)
    IN  IF isnan(variance) THEN NaN ELSE sqrt(variance)

\* the logical contents of the buffer, oldest first (empty when not allocated)
Logical(d, h) ==
    IF d.values = NULLPTR THEN << >>
    ELSE [i \in 1..d.count |-> get_circular_value(d, h, i - 1)]

----------------------------------------------------------------------------
(* Context management and result handling *)

\* mutant: sum and sum_sq are not reset
init_window_stats_data_keeping_sums(d, h, mallocOk) ==
    IF ~mallocOk
    THEN [d |-> [d EXCEPT !.capacity = INITIAL_CAPACITY, !.values = NULLPTR],
          h |-> h, rc |-> "SQLITE_NOMEM"]
    ELSE [d |-> [d EXCEPT !.values = Len(h) + 1, !.count = 0,
                          !.capacity = INITIAL_CAPACITY, !.head = 0, !.tail = 0],
          h |-> Malloc(h, INITIAL_CAPACITY), rc |-> "SQLITE_OK"]

init_window_stats_data(d, h, mallocOk) ==
    IF ~mallocOk
    THEN [d |-> [d EXCEPT !.capacity = INITIAL_CAPACITY, !.values = NULLPTR],
          h |-> h, rc |-> "SQLITE_NOMEM"]
    ELSE [d |-> [values |-> Len(h) + 1, count |-> 0, capacity |-> INITIAL_CAPACITY,
                 head |-> 0, tail |-> 0, sum |-> Zero, sum_sq |-> Zero],
          h |-> Malloc(h, INITIAL_CAPACITY), rc |-> "SQLITE_OK"]

\* mutant: the cells are copied by physical index, not by logical index
grow_stats_buffer_physical(d, h, mallocOk) ==
    LET new_capacity == d.capacity * CAPACITY_GROWTH_FACTOR
        new_values == Len(h) + 1
        copied == [i \in 0..(new_capacity - 1) |->
                      IF i < d.count THEN h[d.values].cells[i] ELSE Uninit]
        h1 == [Malloc(h, new_capacity) EXCEPT ![new_values].cells = copied]
    IN  IF ~mallocOk
        THEN [d |-> d, h |-> h, rc |-> "SQLITE_NOMEM"]
        ELSE [d |-> [d EXCEPT !.values = new_values, !.capacity = new_capacity,
                              !.head = 0, !.tail = d.count],
              h |-> Free(h1, d.values), rc |-> "SQLITE_OK"]

\* mutant: the new array has room for one more value only
grow_stats_buffer_by_one(d, h, mallocOk) ==
    LET new_capacity == d.capacity + 1
        new_values == Len(h) + 1
        copied == [i \in 0..(new_capacity - 1) |->
                      IF i < d.count THEN get_circular_value(d, h, i) ELSE Uninit]
        h1 == [Malloc(h, new_capacity) EXCEPT ![new_values].cells = copied]
    IN  IF ~mallocOk
        THEN [d |-> d, h |-> h, rc |-> "SQLITE_NOMEM"]
        ELSE [d |-> [d EXCEPT !.values = new_values, !.capacity = new_capacity,
                              !.head = 0, !.tail = d.count],
              h |-> Free(h1, d.values), rc |-> "SQLITE_OK"]

\* mutant: the new capacity is stored before the allocation is known to succeed
grow_stats_buffer_eager(d, h, mallocOk) ==
    LET new_capacity == d.capacity * CAPACITY_GROWTH_FACTOR
        new_values == Len(h) + 1
        copied == [i \in 0..(new_capacity - 1) |->
                      IF i < d.count THEN get_circular_value(d, h, i) ELSE Uninit]
        h1 == [Malloc(h, new_capacity) EXCEPT ![new_values].cells = copied]
    IN  IF ~mallocOk
        THEN [d |-> [d EXCEPT !.capacity = new_capacity], h |-> h,
              rc |-> "SQLITE_NOMEM"]
        ELSE [d |-> [d EXCEPT !.values = new_values, !.capacity = new_capacity,
                              !.head = 0, !.tail = d.count],
              h |-> Free(h1, d.values), rc |-> "SQLITE_OK"]

\* rc "UNDEFINED": capacity * CAPACITY_GROWTH_FACTOR overflowed the int, the
\* behaviour of the call is undefined (stats_step draws what the build does)
grow_stats_buffer(d, h, mallocOk) ==
    LET new_capacity == d.capacity * CAPACITY_GROWTH_FACTOR
        new_values == Len(h) + 1
        copied == [i \in 0..(new_capacity - 1) |->
                      IF i < d.count THEN get_circular_value(d, h, i) ELSE Uninit]
        h1 == [Malloc(h, new_capacity) EXCEPT ![new_values].cells = copied]
    IN  IF mul_overflows(d.capacity, CAPACITY_GROWTH_FACTOR)
        THEN [d |-> d, h |-> h, rc |-> "UNDEFINED"]
        ELSE IF ~mallocOk
        THEN [d |-> d, h |-> h, rc |-> "SQLITE_NOMEM"]
        ELSE [d |-> [d EXCEPT !.values = new_values, !.capacity = new_capacity,
                              !.head = 0, !.tail = d.count],
              h |-> Free(h1, d.values), rc |-> "SQLITE_OK"]

\* mutant: only NaN is turned into NULL
set_result_nan_only(r) ==
    IF isnan(r) THEN sqlite3_result_null ELSE sqlite3_result_double(r)

set_result(r) ==
    IF isnan(r) \/ isinf(r) THEN sqlite3_result_null ELSE sqlite3_result_double(r)

----------------------------------------------------------------------------
(* The callbacks *)

Stats == {"stddev_samp", "stddev_pop", "variance_samp", "variance_pop"}

\* the function pointer each value / final callback passes to its helper
stats_func(stat, d) ==
    CASE stat = "stddev_samp"   -> calculate_stddev_sample(d)
      [] stat = "stddev_pop"    -> calculate_stddev_population(d)
      [] stat = "variance_samp" -> calculate_variance_sample(d)
      [] stat = "variance_pop"  -> calculate_variance_population(d)

\* mutant: the population statistics ask for two values as the sample ones do
min_count_two(stat) == 2

\* the min_count each value / final callback passes to its helper
min_count(stat) == IF stat \in {"stddev_samp", "variance_samp"} THEN 2 ELSE 1

\* tried: grow_stats_buffer was called; grew: it returned SQLITE_OK; copies:
\* the cells of the new array its loop wrote
NoGrowth == [tried |-> FALSE, grew |-> FALSE, copies |-> 0,
             pre |-> ZeroData, post |-> ZeroData,
             preLog |-> << >>, postLog |-> << >>]

Op(fn, stat, arg) ==
    [fn |-> fn, stat |-> stat, arg |-> arg, called |-> FALSE, computed |-> Uninit]

\* mutant: the buffer grows one insert too late
buffer_overfull(d) == d.count > d.capacity

\* mutant: the buffer grows one insert too early
buffer_nearly_full(d) == d.count + 1 >= d.capacity

\* stats_step: "Grow buffer if it is full"
buffer_full(d) == d.count >= d.capacity

\* stats_step: sum += value; sum_sq += value * value
accumulate(d, value) ==
    [d EXCEPT !.sum = DAdd(d.sum, value),
              !.sum_sq = DAdd(d.sum_sq, DMul(value, value))]

\* mutant: the square is not taken before it is subtracted
deaccumulate_unsquared(d, removed_value) ==
    [d EXCEPT !.sum = DSub(d.sum, removed_value),
              !.sum_sq = DSub(d.sum_sq, removed_value)]

\* stats_inverse: sum -= removed_value; sum_sq -= removed_value * removed_value
deaccumulate(d, removed_value) ==
    [d EXCEPT !.sum = DSub(d.sum, removed_value),
              !.sum_sq = DSub(d.sum_sq, DMul(removed_value, removed_value))]

\* mutant: the leaving row's NULL is not looked at
inverse_skips_ignoring_null(arg) ==
    ~ctx \/ data.values = NULLPTR \/ data.count <= 0

\* stats_inverse: the early returns
inverse_skips(arg) ==
    \/ ~ctx \/ data.values = NULLPTR \/ data.count <= 0
    \/ sqlite3_value_type(arg) = "NULL"

\* mutant: a NULL is taken for a value of the wrong type
is_null_never(value_type) == FALSE

\* stats_step: value_type == SQLITE_NULL
is_null(value_type) == value_type = "NULL"

\* mutant: every type is taken for a number
not_numeric_never(value_type) == FALSE

\* stats_step: value_type != SQLITE_INTEGER && value_type != SQLITE_FLOAT
not_numeric(value_type) == value_type # "INTEGER" /\ value_type # "FLOAT"

\* stats_step once sqlite3_aggregate_context has returned the context, for the
\* row value arg; mallocOk says whether malloc succeeds.
\* tag: "nomem", "null", "error", "inserted" or, when the doubling of the
\* capacity overflowed, "undefined".
step_with_context(arg, mallocOk) ==
    LET ini == IF data.values = NULLPTR
               THEN init_window_stats_data(data, heap, mallocOk)
               ELSE [d |-> data, h |-> heap, rc |-> "SQLITE_OK"]
        init == data.values = NULLPTR /\ ini.rc = "SQLITE_OK"
        value_type == sqlite3_value_type(arg)
        grw == IF buffer_full(ini.d)
               THEN grow_stats_buffer(ini.d, ini.h, mallocOk)
               ELSE [d |-> ini.d, h |-> ini.h, rc |-> "SQLITE_OK"]
        grew == buffer_full(ini.d) /\ grw.rc = "SQLITE_OK"
        value == sqlite3_value_double(arg)
        add == add_to_circular_buffer(grw.d, grw.h, value)
    IN  IF ini.rc # "SQLITE_OK"
        THEN [tag |-> "nomem", ctx |-> TRUE, init |-> FALSE, d |-> ini.d,
              h |-> ini.h, growth |-> NoGrowth]
        ELSE IF is_null(value_type)
        THEN [tag |-> "null", ctx |-> TRUE, init |-> init, d |-> ini.d,
              h |-> ini.h, growth |-> NoGrowth]
        ELSE IF not_numeric(value_type)
        THEN [tag |-> "error", ctx |-> TRUE, init |-> init, d |-> ini.d,
              h |-> ini.h, growth |-> NoGrowth]
        ELSE IF grw.rc = "UNDEFINED"
        THEN [tag |-> "undefined", ctx |-> TRUE, init |-> init, d |-> grw.d,
              h |-> grw.h, growth |-> [NoGrowth EXCEPT !.tried = TRUE]]
        ELSE IF grw.rc # "SQLITE_OK"
        THEN [tag |-> "nomem", ctx |-> TRUE, init |-> init, d |-> grw.d,
              h |-> grw.h, growth |-> [NoGrowth EXCEPT !.tried = TRUE]]
        ELSE [tag |-> "inserted", ctx |-> TRUE, init |-> init,
              d |-> accumulate(add.d, value),
              h |-> add.h,
              growth |-> IF grew
                         THEN [tried |-> TRUE, grew |-> TRUE,
                               copies |-> Written(grw.h[grw.d.values]),
                               pre |-> ini.d, post |-> grw.d,
                               preLog |-> Logical(ini.d, ini.h),
                               postLog |-> Logical(grw.d, grw.h)]
                         ELSE NoGrowth]

\* the step when sqlite3_aggregate_context returns no context
step_without_context ==
    [tag |-> "nomem", ctx |-> FALSE, init |-> FALSE, d |-> data, h |-> heap,
     growth |-> NoGrowth]

\* mutant: the NULL is looked at before the buffer is initialised
step_outcome_null_first(arg, ctxOk, mallocOk) ==
    IF ~ctx /\ ~ctxOk THEN step_without_context
    ELSE IF is_null(sqlite3_value_type(arg))
    THEN [tag |-> "null", ctx |-> TRUE, init |-> FALSE, d |-> data, h |-> heap,
          growth |-> NoGrowth]
    ELSE step_with_context(arg, mallocOk)

\* What stats_step does to the context for the row value arg (argc is 1: the
\* functions are registered with one argument). ctxOk and mallocOk say whether
\* sqlite3_aggregate_context and malloc succeed.
step_outcome(arg, ctxOk, mallocOk) ==
    IF ~ctx /\ ~ctxOk THEN step_without_context
    ELSE step_with_context(arg, mallocOk)

\* What a build can do when capacity * CAPACITY_GROWTH_FACTOR overflows:
\* "nomem":   the product wraps, the size computed from it is refused by
\*            malloc and the step reports out-of-memory;
\* "abort":   the overflow traps and the process ends;
\* "corrupt": the product wraps, malloc grants the size computed from it, the
\*            copy loop runs over the end of the new array and the wrapped
\*            product becomes the capacity.
UndefinedOutcomes == {"nomem", "abort", "corrupt"}

stats_step(arg, ctxOk, mallocOk) ==
    LET o == step_outcome(arg, ctxOk, mallocOk)
        ins0 == IF o.init THEN << >> ELSE inserted
    IN  \E ub \in (IF o.tag = "undefined" THEN UndefinedOutcomes ELSE {"none"}) :
        /\ ctx' = o.ctx
        /\ data' = IF ub = "corrupt"
                   THEN [o.d EXCEPT !.capacity =
                            WrapInt(o.d.capacity * CAPACITY_GROWTH_FACTOR)]
                   ELSE o.d
        /\ heap' = o.h
        /\ result' = CASE o.tag = "nomem" \/ ub = "nomem" -> sqlite3_result_error_nomem
                       [] o.tag = "error" -> sqlite3_result_error
                       [] ub \in {"abort", "corrupt"} -> [kind |-> ub, val |-> Zero]
                       [] OTHER -> NoResult
        /\ lastOp' = Op("step", o.tag, arg)
        /\ growth' = o.growth
        \* the row enters the frame unless its step failed
        /\ rows' = IF o.tag \in {"null", "inserted"} THEN rows + 1 ELSE rows
        /\ frame' = IF o.tag \in {"null", "inserted"} THEN Append(frame, arg) ELSE frame
        /\ inserted' = IF o.tag = "inserted"
                       THEN Append(ins0, sqlite3_value_double(arg)) ELSE ins0
        /\ evicted' = IF o.init THEN 0 ELSE evicted
        /\ grown' = (IF o.init THEN 0 ELSE grown) + (IF o.growth.grew THEN 1 ELSE 0)
        /\ ncopied' = (IF o.init THEN 0 ELSE ncopied) + o.growth.copies
        /\ UNCHANGED <<arith, int_max>>

\* stats_inverse for a leaving row whose value is arg
stats_inverse(arg) ==
    LET skip == inverse_skips(arg)
        rem == remove_from_circular_buffer(data, heap)
    IN  /\ data' = IF skip THEN data ELSE deaccumulate(rem.d, rem.ret)
        /\ evicted' = IF skip THEN evicted ELSE evicted + 1
        /\ result' = NoResult
        /\ lastOp' = Op("inverse", IF skip THEN "skipped" ELSE "removed", arg)
        /\ growth' = NoGrowth
        /\ frame' = IF frame = << >> THEN frame ELSE Tail(frame)
        /\ UNCHANGED <<arith, int_max, ctx, heap, rows, inserted, grown, ncopied>>

\* mutant: the statistic is computed and reported whatever the count
stats_value_helper_unguarded(stat) ==
    LET absent == ~ctx \/ data.values = NULLPTR
    IN  /\ result' = IF absent THEN sqlite3_result_null
                     ELSE sqlite3_result_double(stats_func(stat, data))
        /\ lastOp' = [Op("value", stat, SqlNull) EXCEPT
                         !.called = ~absent,
                         !.computed = IF absent THEN Uninit ELSE stats_func(stat, data)]
        /\ growth' = NoGrowth
        /\ UNCHANGED <<arith, int_max, ctx, data, heap, rows, frame, inserted, evicted,
                       grown, ncopied>>

\* mutant: the value callback cleans up as the final callback does
stats_value_helper_as_final(stat) ==
    LET present == ctx /\ data.values # NULLPTR /\ data.count >= min_count(stat)
        cleanup == ctx /\ data.values # NULLPTR
    IN  /\ result' = IF present THEN set_result(stats_func(stat, data))
                     ELSE sqlite3_result_null
        /\ lastOp' = [Op("value", stat, SqlNull) EXCEPT
                         !.called = present,
                         !.computed = IF present THEN stats_func(stat, data) ELSE Uninit]
        /\ heap' = IF cleanup THEN Free(heap, data.values) ELSE heap
        /\ data' = IF cleanup THEN [data EXCEPT !.values = NULLPTR] ELSE data
        /\ growth' = NoGrowth
        /\ UNCHANGED <<arith, int_max, ctx, rows, frame, inserted, evicted, grown, ncopied>>

\* the value callback of statistic stat
stats_value_helper(stat) ==
    LET absent == ~ctx \/ data.values = NULLPTR \/ data.count < min_count(stat)
    IN  /\ result' = IF absent THEN sqlite3_result_null
                     ELSE set_result(stats_func(stat, data))
        /\ lastOp' = [Op("value", stat, SqlNull) EXCEPT
                         !.called = ~absent,
                         !.computed = IF absent THEN Uninit ELSE stats_func(stat, data)]
        /\ growth' = NoGrowth
        /\ UNCHANGED <<arith, int_max, ctx, data, heap, rows, frame, inserted, evicted,
                       grown, ncopied>>

\* mutant: the pointer is not set to NULL after the array is freed
stats_final_helper_dangling(stat) ==
    LET present == ctx /\ data.values # NULLPTR /\ data.count >= min_count(stat)
        cleanup == ctx /\ data.values # NULLPTR
    IN  /\ result' = IF present THEN set_result(stats_func(stat, data))
                     ELSE sqlite3_result_null
        /\ lastOp' = [Op("final", stat, SqlNull) EXCEPT
                         !.called = present,
                         !.computed = IF present THEN stats_func(stat, data) ELSE Uninit]
        /\ heap' = IF cleanup THEN Free(heap, data.values) ELSE heap
        /\ growth' = NoGrowth
        /\ frame' = << >>
        /\ UNCHANGED <<arith, int_max, ctx, data, rows, inserted, evicted, grown, ncopied>>

\* the final callback of statistic stat; the scope ends, so the frame is gone
stats_final_helper(stat) ==
    LET present == ctx /\ data.values # NULLPTR /\ data.count >= min_count(stat)
        cleanup == ctx /\ data.values # NULLPTR
    IN  /\ result' = IF present THEN set_result(stats_func(stat, data))
                     ELSE sqlite3_result_null
        /\ lastOp' = [Op("final", stat, SqlNull) EXCEPT
                         !.called = present,
                         !.computed = IF present THEN stats_func(stat, data) ELSE Uninit]
        /\ heap' = IF cleanup THEN Free(heap, data.values) ELSE heap
        /\ data' = IF cleanup THEN [data EXCEPT !.values = NULLPTR] ELSE data
        /\ growth' = NoGrowth
        /\ frame' = << >>
        /\ UNCHANGED <<arith, int_max, ctx, rows, inserted, evicted, grown, ncopied>>

----------------------------------------------------------------------------
(* Spec: short runs over every kind of row, exact arithmetic *)

\* the row values of Spec
Args == {SqlNull, SqlText, SqlInt(1), SqlInt(3), SqlFloat(Fin(-3, 2))}

InitCommon ==
    /\ ctx = FALSE
    /\ data = ZeroData
    /\ heap = << >>
    /\ result = NoResult
    /\ lastOp = Op("none", "none", SqlNull)
    /\ growth = NoGrowth
    /\ rows = 0
    /\ frame = << >>
    /\ inserted = << >>
    /\ evicted = 0
    /\ grown = 0
    /\ ncopied = 0

Init == arith = "real" /\ int_max = INT_MAX /\ InitCommon

\* the allocation outcomes a step can meet: sqlite3_aggregate_context allocates
\* only when there is no context yet, malloc is called only to initialise or grow
CtxOutcomes == IF ctx THEN {TRUE} ELSE BOOLEAN
MallocOutcomes ==
    IF data.values = NULLPTR \/ buffer_full(data) THEN BOOLEAN ELSE {TRUE}

Step ==
    /\ rows < MaxRows
    /\ data.values = NULLPTR => Len(heap) < MaxBlocks
    /\ \E arg \in Args, ctxOk \in CtxOutcomes, mallocOk \in MallocOutcomes :
           stats_step(arg, ctxOk, mallocOk)

\* the oldest row leaves the frame
Inverse == frame # << >> /\ stats_inverse(Head(frame))

\* an eviction issued with no row in the frame
InverseEmpty == frame = << >> /\ \E arg \in Args : stats_inverse(arg)

Value == \E stat \in Stats : stats_value_helper(stat)

Final == \E stat \in Stats : stats_final_helper(stat)

Next == Step \/ Inverse \/ InverseEmpty \/ Value \/ Final

Spec == Init /\ [][Next]_vars

----------------------------------------------------------------------------
(* SpecGrow: long runs that fill the buffer, wrap it and grow it, exact      *)
(* arithmetic. The rows carry the README's example data, repeated.          *)

ExampleData == <<10, 12, 15, 13, 18, 20, 22, 25, 23, 28>>

\* the value of the i-th row (a row whose step failed is fed again)
StreamArg(i) == SqlInt(ExampleData[((i - 1) % Len(ExampleData)) + 1])

StepGrow ==
    /\ rows < MaxGrowRows
    /\ \E ctxOk \in CtxOutcomes, mallocOk \in MallocOutcomes :
           stats_step(StreamArg(rows + 1), ctxOk, mallocOk)

\* a NULL row or a text row arrives when the buffer is full
StepGrowOther ==
    /\ rows < MaxGrowRows
    /\ ctx /\ data.values # NULLPTR /\ buffer_full(data)
    /\ \E arg \in {SqlNull, SqlText}, mallocOk \in MallocOutcomes :
           stats_step(arg, TRUE, mallocOk)

InverseGrow == frame # << >> /\ evicted < MaxGrowEvict /\ stats_inverse(Head(frame))

\* the scope ends after the buffer has grown
FinalGrow == grown >= 1 /\ Final

NextGrow ==
    StepGrow \/ StepGrowOther \/ InverseGrow \/ InverseEmpty \/ Value \/ FinalGrow

SpecGrow == Init /\ [][NextGrow]_vars

----------------------------------------------------------------------------
(* SpecFloat: short runs in the rounded "bin" arithmetic, over values whose   *)
(* squares are rounded or add up to an overflow, and over an infinite value  *)

\* the row values of SpecFloat: 15/16 (its square is rounded), 6 (the sum of two
\* of its squares overflows) and infinity
ArgsFloat == {SqlFloat(Fin(15, 16)), SqlFloat(Fin(6, 1)), SqlFloat(PosInf)}

InitFloat == arith = "bin" /\ int_max = INT_MAX /\ InitCommon

StepFloat ==
    /\ rows < MaxFloatRows
    /\ data.values = NULLPTR => Len(heap) < MaxBlocks
    /\ \E arg \in ArgsFloat, ctxOk \in CtxOutcomes, mallocOk \in MallocOutcomes :
           stats_step(arg, ctxOk, mallocOk)

NextFloat == StepFloat \/ Inverse \/ InverseEmpty \/ Value \/ Final

SpecFloat == InitFloat /\ [][NextFloat]_vars

----------------------------------------------------------------------------
(* SpecLong: runs long enough for the buffer to grow twice, exact arithmetic, *)
(* the README's example data as in SpecGrow                                  *)

\* the process is running: no callback has ended it
Running == result.kind \notin {"abort", "corrupt"}

StepLong ==
    /\ Running
    /\ rows < MaxLongRows
    /\ \E ctxOk \in CtxOutcomes, mallocOk \in MallocOutcomes :
           stats_step(StreamArg(rows + 1), ctxOk, mallocOk)

InverseLong ==
    /\ Running
    /\ frame # << >> /\ evicted < MaxLongEvict
    /\ stats_inverse(Head(frame))

ValueLong == Running /\ Value

NextLong == StepLong \/ InverseLong \/ ValueLong

SpecLong == Init /\ [][NextLong]_vars

----------------------------------------------------------------------------
(* SpecNarrow: the runs of SpecLong on a build whose int is narrow enough for *)
(* the capacity to reach its range                                           *)

InitNarrow == arith = "real" /\ int_max = NarrowIntMax /\ InitCommon

SpecNarrow == InitNarrow /\ [][NextLong]_vars

----------------------------------------------------------------------------
(* Direct computation over a sequence of finite values, in exact arithmetic *)

XAdd(x, y) ==
    LET g == GCD(x.den, y.den)
        l == (x.den \div g) * y.den
    IN  Fin(x.num * (l \div x.den) + y.num * (l \div y.den), l)

XMul(x, y) ==
    LET g1 == GCD(Abs(x.num), y.den)
        g2 == GCD(Abs(y.num), x.den)
    IN  Fin((x.num \div g1) * (y.num \div g2), (x.den \div g2) * (y.den \div g1))

\* x / n for an integer n > 0
XDivInt(x, n) == XMul(x, Fin(1, n))

\* the sum of seq[lo..hi], by halving the range
RECURSIVE SumRange(_, _, _)
SumRange(seq, lo, hi) ==
    IF lo > hi THEN Zero
    ELSE IF lo = hi THEN seq[lo]
    ELSE LET mid == (lo + hi) \div 2
         IN  XAdd(SumRange(seq, lo, mid), SumRange(seq, mid + 1, hi))

SumOf(seq) == SumRange(seq, 1, Len(seq))

\* the sum of the squares of the values of seq
SumSqOf(seq) == SumOf([i \in 1..Len(seq) |-> XMul(seq[i], seq[i])])

\* the sum of the squared deviations from m of the values of seq
SumDevSqOf(seq, m) ==
    SumOf([i \in 1..Len(seq) |->
              LET dev == XAdd(seq[i], Neg(m)) IN XMul(dev, dev)])

DirectMean(seq) == XDivInt(SumOf(seq), Len(seq))

\* sum((x - mean)^2) / n
DirectVariancePopulation(seq) ==
    XDivInt(SumDevSqOf(seq, DirectMean(seq)), Len(seq))

\* sum((x - mean)^2) / (n - 1)
DirectVarianceSample(seq) ==
    XDivInt(SumDevSqOf(seq, DirectMean(seq)), Len(seq) - 1)

Initialised == ctx /\ data.values # NULLPTR

----------------------------------------------------------------------------
(* Claims *)

\* C1: whenever the aggregator is initialised, sum is the exact sum of the
\* values at logical positions 0..count-1 of the buffer and sum_sq the exact
\* sum of their squares.
AccumulatorInvariant ==
    Initialised =>
        LET L == Logical(data, heap)
        IN  /\ data.sum = SumOf(L)
            /\ data.sum_sq = SumSqOf(L)

\* values of different size were inserted, one was evicted and two remain
AccumulatorWitness ==
    /\ Initialised
    /\ lastOp.fn = "inverse" /\ lastOp.stat = "removed"
    /\ data.count = 2
    /\ Logical(data, heap)[1] # Logical(data, heap)[2]
    /\ inserted[1] # Logical(data, heap)[1]

\* the values inserted and not yet evicted, oldest first
Remaining == SubSeq(inserted, evicted + 1, Len(inserted))

\* the accumulators that inserting 1, 2, 3, 4, 5 and evicting once leave
\* (count 4, sum 2+3+4+5, sum_sq 4+9+16+25) give a population variance of 1.25
SlidingExample ==
    calculate_variance_population(
        [ZeroData EXCEPT !.count = 4, !.sum = Fin(14, 1), !.sum_sq = Fin(54, 1)])
    = Fin(5, 4)

\* C2: eviction is strictly FIFO: the buffer's logical contents are the
\* inserted sequence without its first `evicted` values, and the population
\* variance, computed or reported by the value callback, is the direct
\* computation over exactly those values (1.25 for the values 2, 3, 4, 5).
FifoEviction ==
    /\ SlidingExample
    /\ Initialised =>
        /\ Logical(data, heap) = Remaining
        /\ data.count >= 1 =>
               /\ calculate_variance_population(data) = DirectVariancePopulation(Remaining)
               /\ (lastOp.fn = "value" /\ lastOp.stat = "variance_pop") =>
                      result = sqlite3_result_double(DirectVariancePopulation(Remaining))

\* evictions were made, on a buffer that wrapped and then grew, and the
\* population variance was queried
FifoWitness ==
    /\ Initialised
    /\ evicted = MaxGrowEvict
    /\ data.capacity = INITIAL_CAPACITY * CAPACITY_GROWTH_FACTOR
    /\ data.head > 0
    /\ Len(inserted) > INITIAL_CAPACITY + evicted
    /\ lastOp.fn = "value" /\ lastOp.stat = "variance_pop"

\* the non-NULL values of the rows of f, as step reads them
RECURSIVE FrameValues(_)
FrameValues(f) ==
    IF f = << >> THEN << >>
    ELSE IF Head(f).type = "NULL" THEN FrameValues(Tail(f))
    ELSE <<sqlite3_value_double(Head(f))>> \o FrameValues(Tail(f))

\* C3: when step is called for every row entering the frame and inverse for
\* every row leaving it, oldest first, the buffer's logical contents are the
\* non-NULL values of the rows in the frame, in entry order.
FrameConsistency == Logical(data, heap) = FrameValues(frame)

\* a NULL row has just left a frame that still holds a value and a NULL row
FrameWitness ==
    /\ lastOp.fn = "inverse" /\ lastOp.arg = SqlNull
    /\ data.count >= 1
    /\ \E i \in 1..Len(frame) : frame[i] = SqlNull
    /\ \E i \in 1..Len(frame) : frame[i] # SqlNull


SampleStats == {"stddev_samp", "variance_samp"}
PopulationStats == {"stddev_pop", "variance_pop"}
VarianceStats == {"variance_samp", "variance_pop"}

\* C4: a value or final query of a sample statistic with count 0 or 1, and of
\* a population statistic with count 0, reports NULL.
MinimumCount ==
    lastOp.fn \in {"value", "final"} =>
        /\ (lastOp.stat \in SampleStats /\ data.count <= 1) => result = sqlite3_result_null
        /\ (lastOp.stat \in PopulationStats /\ data.count = 0) => result = sqlite3_result_null

\* evictions drained the buffer to one value and the sample variance, queried
\* then, is NULL
MinimumCountWitness ==
    /\ Initialised
    /\ evicted >= 1 /\ data.count = 1
    /\ lastOp.fn = "value" /\ lastOp.stat = "variance_samp"
    /\ result = sqlite3_result_null

IsNumber(x) == x.cls \in {"fin", "root"}

\* C5: a query never reports a NaN or an infinity: a reported double is a
\* finite number, and a computed NaN or infinity is reported as NULL.
NoNonFiniteResult ==
    /\ result.kind = "double" => IsNumber(result.val)
    /\ (lastOp.called /\ (isnan(lastOp.computed) \/ isinf(lastOp.computed))) =>
           result = sqlite3_result_null

\* with enough values in the buffer the population variance came out as NaN
NoNonFiniteWitness ==
    /\ lastOp.called
    /\ lastOp.stat = "variance_pop"
    /\ isnan(lastOp.computed)
    /\ data.count >= 1

\* C6 as stated: a variance that is computed as a finite negative number is
\* reported as NULL.
NegativeVarianceIsNull ==
    (/\ lastOp.called
     /\ lastOp.stat \in VarianceStats
     /\ IsFin(lastOp.computed)
     /\ lastOp.computed.num < 0) => result = sqlite3_result_null

\* the README's example values were inserted into a fresh aggregator and
\* nothing was evicted
ExampleInserted ==
    /\ Initialised
    /\ evicted = 0
    /\ inserted = [i \in 1..Len(ExampleData) |-> Fin(ExampleData[i], 1)]

\* the finite x is within 1e-2 of hundredths / 100
Near(x, hundredths) ==
    IsFin(x) /\ Abs(100 * x.num - hundredths * x.den) <= x.den

\* C7 as stated: after the example values the population variance is within
\* 1e-2 of 30.81 and the sample variance within 1e-2 of 34.23.
EndToEndAsStated ==
    ExampleInserted =>
        /\ Near(calculate_variance_population(data), 3081)
        /\ Near(calculate_variance_sample(data), 3423)

\* C7 amended: after the example values the population variance is within
\* 1e-2 of 32.44 and the sample variance within 1e-2 of 36.04, and these are
\* what the value callbacks report.
EndToEnd ==
    ExampleInserted =>
        /\ Near(calculate_variance_population(data), 3244)
        /\ Near(calculate_variance_sample(data), 3604)
        /\ (lastOp.fn = "value" /\ lastOp.stat = "variance_pop") =>
               (result.kind = "double" /\ Near(result.val, 3244))
        /\ (lastOp.fn = "value" /\ lastOp.stat = "variance_samp") =>
               (result.kind = "double" /\ Near(result.val, 3604))

\* the sample variance was queried right after the example values
EndToEndWitness ==
    /\ ExampleInserted
    /\ lastOp.fn = "value" /\ lastOp.stat = "variance_samp"
    /\ result.kind = "double"

\* C8: with n >= 2 values in the buffer, the sample variance computed from
\* the accumulators is the sum of the squared deviations from the mean
\* divided by n - 1.
SampleEquivalence ==
    (Initialised /\ data.count >= 2) =>
        calculate_variance_sample(data) = DirectVarianceSample(Logical(data, heap))

\* three values, not all equal, are in the buffer
SampleEquivalenceWitness ==
    /\ Initialised
    /\ data.count = 3
    /\ Logical(data, heap)[1] # Logical(data, heap)[2]
    /\ calculate_variance_sample(data) # Zero

RingInvariant ==
    Initialised =>
        /\ 0 <= data.count /\ data.count <= data.capacity
        /\ 0 <= data.head /\ data.head < data.capacity
        /\ 0 <= data.tail /\ data.tail < data.capacity
        /\ data.tail = (data.head + data.count) % data.capacity

\* a step that inserts appends its value to the logical contents
InsertAppends ==
    (lastOp'.fn = "step" /\ lastOp'.stat = "inserted") =>
        /\ Logical(data', heap') =
               Append(Logical(data, heap), sqlite3_value_double(lastOp'.arg))
        /\ data'.count <= data'.capacity

\* C9: an initialised buffer has 0 <= count <= capacity, head and tail within
\* 0..capacity-1 and tail = (head + count) mod capacity; an insert writes only
\* after growth has made room, so it keeps every live element.
RingStructure == []RingInvariant /\ [][InsertAppends]_vars

\* an insert has just filled a buffer whose head is not at slot 0
RingWitness ==
    /\ Initialised
    /\ lastOp.fn = "step" /\ lastOp.stat = "inserted"
    /\ data.count = data.capacity
    /\ data.head > 0 /\ data.tail = data.head

\* C10: a growth event doubles capacity, sets head to 0 and tail to count and
\* leaves count, sum, sum_sq and the value at every logical index unchanged.
GrowthTransparency ==
    growth.grew =>
        /\ growth.post.capacity = 2 * growth.pre.capacity
        /\ growth.post.head = 0
        /\ growth.post.tail = growth.pre.count
        /\ growth.post.count = growth.pre.count
        /\ growth.post.sum = growth.pre.sum
        /\ growth.post.sum_sq = growth.pre.sum_sq
        /\ Len(growth.preLog) = growth.pre.count
        /\ growth.postLog = growth.preLog

\* a buffer whose head was not at slot 0 has grown
GrowthWitness ==
    /\ growth.grew
    /\ growth.pre.head > 0
    /\ growth.pre.tail = growth.pre.head

\* a buffer exists and holds as many values as it has room for
FullBefore == Initialised /\ data.count = data.capacity

\* a step calls grow_stats_buffer exactly when its value is a number and the
\* buffer is full, and the buffer grows exactly when that call's allocation
\* succeeds; no other callback grows the buffer
GrowthTriggerStep ==
    /\ lastOp'.fn = "step" =>
           /\ growth'.tried <=>
                  (FullBefore /\ lastOp'.arg.type \in {"INTEGER", "FLOAT"})
           /\ growth'.grew <=> (growth'.tried /\ lastOp'.stat = "inserted")
           /\ growth'.grew => (grown' = grown + 1 /\ data'.capacity > data.capacity)
           /\ (~growth'.grew /\ Initialised) =>
                  (grown' = grown /\ data'.capacity = data.capacity)
    /\ lastOp'.fn # "step" =>
           (~growth'.tried /\ grown' = grown /\ data'.capacity = data.capacity)

\* up to INITIAL_CAPACITY inserts never grow the buffer; INITIAL_CAPACITY + 1
\* inserts without an eviction grow it once and are read back in order
GrowthCount ==
    Initialised =>
        /\ Len(inserted) <= INITIAL_CAPACITY => grown = 0
        /\ (Len(inserted) = INITIAL_CAPACITY + 1 /\ evicted = 0) =>
               /\ grown = 1
               /\ data.capacity = INITIAL_CAPACITY * CAPACITY_GROWTH_FACTOR
               /\ Logical(data, heap) = inserted

\* C11: a growth event happens on a step exactly when the incoming value is
\* numeric (so not NULL) and count = capacity before the insert (and the
\* allocation of the larger array succeeds), never otherwise; inserting
\* INITIAL_CAPACITY + 1 values into a fresh aggregator triggers exactly one
\* growth event and the values are read back in insertion order.
GrowthTrigger == []GrowthCount /\ [][GrowthTriggerStep]_vars

\* INITIAL_CAPACITY + 1 values were inserted and the buffer grew once, after a
\* NULL row had arrived at the full buffer without growing it
GrowthTriggerWitness ==
    /\ Initialised
    /\ grown = 1
    /\ Len(inserted) = INITIAL_CAPACITY + 1 /\ evicted = 0
    /\ \E i \in 1..Len(frame) : frame[i] = SqlNull
    /\ lastOp.fn = "step" /\ growth.grew

\* a step whose call of grow_stats_buffer failed changes nothing
GrowthFailureStep ==
    (lastOp'.fn = "step" /\ growth'.tried /\ ~growth'.grew) =>
        /\ result' = sqlite3_result_error_nomem
        /\ data' = data
        /\ heap' = heap
        /\ heap'[data.values].live
        /\ Logical(data', heap') = Logical(data, heap)
        /\ inserted' = inserted

\* C12: when the allocation in grow_stats_buffer fails during a step, the
\* step reports out-of-memory, the value is not inserted, values, capacity,
\* head, tail, count, sum and sum_sq are as before the step and the old array
\* is not freed.
GrowthFailureAtomic == [][GrowthFailureStep]_vars

\* the allocation failed when a full buffer whose head is not at slot 0 had
\* to grow
GrowthFailureWitness ==
    /\ lastOp.fn = "step" /\ lastOp.stat = "nomem"
    /\ growth.tried /\ ~growth.grew
    /\ data.count = data.capacity
    /\ data.head > 0
    /\ heap[data.values].live
    /\ Logical(data, heap) = Remaining

\* What the aggregator holds, as the callbacks can read it: every read of
\* count, sum, sum_sq or a cell is behind a test of values against NULL, so
\* without a buffer the aggregator is empty whatever those fields hold.
View(c, d, h) ==
    IF c /\ d.values # NULLPTR
    THEN [contents |-> Logical(d, h), count |-> d.count,
          sum |-> d.sum, sum_sq |-> d.sum_sq]
    ELSE [contents |-> << >>, count |-> 0, sum |-> Zero, sum_sq |-> Zero]

\* a step whose value is neither NULL nor a number
NonNumericStep ==
    (lastOp'.fn = "step" /\ lastOp'.arg.type \notin {"NULL", "INTEGER", "FLOAT"}) =>
        /\ lastOp'.stat \in {"error", "nomem"}
        /\ result'.kind \in {"error", "nomem"}
        /\ lastOp'.stat = "error" => result' = sqlite3_result_error
        /\ View(ctx', data', heap') = View(ctx, data, heap)
        /\ Initialised =>
               (data' = data /\ heap' = heap /\ result' = sqlite3_result_error)

\* C13: a step whose value is present but neither INTEGER nor FLOAT reports
\* an error and leaves the buffered contents, count, sum and sum_sq unchanged;
\* it is never silently ignored and never inserted.
NonNumericRejected == [][NonNumericStep]_vars

\* a text row was rejected by an aggregator that holds values
NonNumericWitness ==
    /\ lastOp.fn = "step" /\ lastOp.arg = SqlText /\ lastOp.stat = "error"
    /\ result = sqlite3_result_error
    /\ Initialised /\ data.count >= 1
    /\ Logical(data, heap) = Remaining

\* C14 as stated: a step whose value is an infinity is signalled to the caller
\* as an error and the infinity is neither pushed into the buffer nor added
\* to sum and sum_sq.
NonFiniteRejected ==
    /\ (lastOp.fn = "step" /\ isinf(lastOp.arg.val)) =>
           (lastOp.stat # "inserted" /\ result.kind \in {"error", "nomem"})
    /\ Initialised =>
           /\ \A i \in 1..data.count : ~isinf(Logical(data, heap)[i])
           /\ ~isinf(data.sum) /\ ~isinf(data.sum_sq)

\* every row of the non-empty frame f carries NULL
AllNull(f) == f # << >> /\ \A i \in 1..Len(f) : f[i] = SqlNull

\* a query over a frame or a group in which every value is NULL reports NULL
AllNullQuery ==
    /\ (lastOp'.fn = "value" /\ AllNull(frame')) => result' = sqlite3_result_null
    /\ (lastOp'.fn = "final" /\ AllNull(frame)) => result' = sqlite3_result_null

\* a step whose value is NULL reports nothing and changes nothing
NullStepSilent ==
    (lastOp'.fn = "step" /\ lastOp'.arg = SqlNull) =>
        /\ result' = NoResult
        /\ View(ctx', data', heap') = View(ctx, data, heap)

\* C15 as stated: a step whose value is NULL leaves the buffered contents,
\* count, sum and sum_sq unchanged and reports no error; a group or frame in
\* which every value is NULL yields NULL for all four statistics.
NullStepAsStated == [][NullStepSilent /\ AllNullQuery]_vars

\* a step whose value is NULL changes nothing, and reports nothing unless an
\* allocation it made before looking at the value failed
NullStep ==
    (lastOp'.fn = "step" /\ lastOp'.arg = SqlNull) =>
        /\ lastOp'.stat \in {"null", "nomem"}
        /\ lastOp'.stat = "null" => result' = NoResult
        /\ lastOp'.stat = "nomem" =>
               (~Initialised /\ result' = sqlite3_result_error_nomem)
        /\ View(ctx', data', heap') = View(ctx, data, heap)
        /\ Initialised => (data' = data /\ heap' = heap /\ result' = NoResult)

\* C15 amended: a step whose value is NULL leaves the buffered contents,
\* count, sum and sum_sq unchanged; it reports no error on an aggregator that
\* has its buffer, and on one that has none it reports out-of-memory when the
\* allocation of the context or of the buffer fails. A group or frame in
\* which every value is NULL yields NULL for all four statistics.
NullStepIgnored == [][NullStep /\ AllNullQuery]_vars

\* the frame slid from a value onto two NULL rows and the query reports NULL
NullStepWitness ==
    /\ Len(frame) = 2 /\ AllNull(frame)
    /\ evicted = 1
    /\ Initialised /\ data.count = 0
    /\ lastOp.fn = "value" /\ lastOp.stat = "variance_pop"
    /\ result = sqlite3_result_null

\* the callbacks other than step allocate nothing
OnlyStepAllocates ==
    lastOp'.fn # "step" =>
        /\ Len(heap') = Len(heap)
        /\ data.values = NULLPTR => data'.values = NULLPTR

\* a step that carries NULL allocates nothing
NullStepAllocatesNothing ==
    (lastOp'.fn = "step" /\ lastOp'.arg = SqlNull) =>
        (Len(heap') = Len(heap) /\ data'.values = data.values)

\* C16 as stated: no buffer is allocated until the first value arrives for
\* insertion; steps that carry only NULL perform no buffer allocation.
LazyCreationAsStated == [][OnlyStepAllocates /\ NullStepAllocatesNothing]_vars

\* a step on an aggregator without a buffer allocates one of INITIAL_CAPACITY
\* cells, whatever its value, unless an allocation fails; a step on an
\* aggregator with a buffer allocates only to grow it
StepAllocates ==
    lastOp'.fn = "step" =>
        /\ (~Initialised /\ lastOp'.stat # "nomem") =>
               /\ Initialised'
               /\ Len(heap') = Len(heap) + 1
               /\ data'.values = Len(heap')
               /\ heap'[data'.values].live
               /\ data'.capacity = INITIAL_CAPACITY
        /\ (~Initialised /\ lastOp'.stat = "nomem") =>
               (Len(heap') = Len(heap) /\ data'.values = NULLPTR)
        /\ Initialised =>
               Len(heap') = Len(heap) + (IF growth'.grew THEN 1 ELSE 0)

\* C16 amended: the buffer is allocated by the first step on the aggregator,
\* whatever the row's value (NULL and non-numeric included); value, final and
\* inverse never allocate.
CreationOnFirstStep == [][OnlyStepAllocates /\ StepAllocates]_vars

\* the first row carried NULL and the aggregator has its buffer
CreationWitness ==
    /\ lastOp.fn = "step" /\ lastOp.arg = SqlNull /\ lastOp.stat = "null"
    /\ rows = 1
    /\ Initialised /\ Len(heap) = 1 /\ heap[data.values].live
    /\ data.count = 0 /\ inserted = << >>

\* an eviction on an aggregator that has no buffer or holds nothing
EmptyEvictionStep ==
    (lastOp'.fn = "inverse" /\ (~Initialised \/ data.count = 0)) =>
        /\ lastOp'.stat = "skipped"
        /\ data' = data
        /\ heap' = heap
        /\ ctx' = ctx
        /\ result' = NoResult

\* on an empty buffer remove_from_circular_buffer returns 0.0 and changes
\* nothing
RemoveOnEmpty ==
    (Initialised /\ data.count = 0) =>
        remove_from_circular_buffer(data, heap) = [d |-> data, ret |-> Zero]

\* C17: an eviction on an empty or never-initialised aggregator is a no-op:
\* stats_inverse (and remove_from_circular_buffer, which returns 0.0) leaves
\* head, tail, count, capacity, sum and sum_sq unchanged and reports no error,
\* and count is never negative.
EmptyEviction ==
    [](data.count >= 0 /\ RemoveOnEmpty) /\ [][EmptyEvictionStep]_vars

\* a buffer drained by an eviction was asked to evict a non-NULL row again
EmptyEvictionWitness ==
    /\ lastOp.fn = "inverse" /\ lastOp.stat = "skipped"
    /\ lastOp.arg.type = "INTEGER"
    /\ Initialised /\ data.count = 0
    /\ evicted >= 1 /\ data.head > 0
    /\ result = NoResult

\* what a query of statistic stat reports over the values L, computed
\* directly from them in exact arithmetic
DirectResult(stat, L) ==
    IF Len(L) < (IF stat \in SampleStats THEN 2 ELSE 1)
    THEN sqlite3_result_null
    ELSE LET v == IF stat \in SampleStats
                  THEN DirectVarianceSample(L) ELSE DirectVariancePopulation(L)
         IN  sqlite3_result_double(IF stat \in VarianceStats THEN v ELSE sqrt(v))

\* a value callback changes nothing, reports what the buffer contents
\* determine, and reports again what the same query reported just before
PureQuery ==
    lastOp'.fn = "value" =>
        /\ data' = data
        /\ heap' = heap
        /\ ctx' = ctx
        /\ result' = DirectResult(lastOp'.stat, Logical(data, heap))
        /\ (lastOp.fn = "value" /\ lastOp.stat = lastOp'.stat) => result' = result

\* C18: the four value callbacks are pure reads: each leaves values, head,
\* tail, count, capacity, sum and sum_sq unchanged, and queries in any order
\* with no insert or evict between them return the same results, each
\* determined only by the current buffer contents.
QueriesArePure == [][PureQuery]_vars

\* the sample standard deviation of the two values left after an eviction was
\* queried and is an irrational number
QueriesWitness ==
    /\ lastOp.fn = "value" /\ lastOp.stat = "stddev_samp"
    /\ Initialised /\ data.count = 2 /\ evicted = 1
    /\ result.kind = "double" /\ result.val.cls = "root"
    /\ heap[data.values].live

\* the backing arrays ever allocated
Blocks == 1..Len(heap)

\* no array was freed twice, a live array is the one the aggregator points
\* to, so at most one is live, and after final none is
OwnershipInvariant ==
    /\ \A p \in Blocks :
           /\ heap[p].freed <= 1
           /\ heap[p].live <=> heap[p].freed = 0
           /\ heap[p].live => (ctx /\ data.values = p)
    /\ Cardinality({p \in Blocks : heap[p].live}) <= 1
    /\ data.values # NULLPTR => (data.values \in Blocks /\ heap[data.values].live)
    /\ lastOp.fn = "final" =>
           (data.values = NULLPTR /\ \A p \in Blocks : heap[p].freed = 1)

\* growth frees the old array as it installs the new one, and a final that
\* follows a final frees nothing
OwnershipStep ==
    /\ growth'.grew =>
           /\ data'.values # data.values
           /\ heap'[data.values].freed = 1
           /\ heap'[data'.values].live
    /\ (lastOp.fn = "final" /\ lastOp'.fn = "final") => heap' = heap

\* C19: over any sequence of step, inverse, value and final calls every
\* backing array that is allocated is freed exactly once (never twice, even
\* if final is invoked again), at most one backing array is live at any time
\* (growth frees the old one) and after a final none is live.
Ownership == []OwnershipInvariant /\ [][OwnershipStep]_vars

\* the scope ended after the buffer had grown: the initial array was freed
\* by the growth and the grown array by final
OwnershipWitness ==
    /\ lastOp.fn = "final"
    /\ Len(heap) = 2 /\ grown = 1
    /\ \A p \in Blocks : heap[p].freed = 1
    /\ data.values = NULLPTR

\* the aggregator after a final: it had a buffer and has none now
Released == ctx /\ data.values = NULLPTR /\ heap # << >>

\* what the callbacks do to an aggregator after a final
AfterFinalStep ==
    Released =>
        /\ \A p \in Blocks : heap'[p] = heap[p]
        /\ lastOp'.fn \in {"value", "final"} =>
               (result' = sqlite3_result_null /\ data' = data /\ heap' = heap)
        /\ lastOp'.fn = "inverse" =>
               (result' = NoResult /\ data' = data /\ heap' = heap)
        /\ (lastOp'.fn = "step" /\ lastOp'.stat = "inserted") =>
               LET v == sqlite3_value_double(lastOp'.arg)
               IN  /\ data'.values = Len(heap) + 1
                   /\ data'.count = 1 /\ data'.head = 0
                   /\ data'.sum = v
                   /\ data'.sum_sq = XMul(v, v)
                   /\ Logical(data', heap') = <<v>>
                   /\ inserted' = <<v>>

\* a released array is never written, and an aggregator initialised again
\* holds only what was inserted since
AfterFinalInvariant ==
    /\ \A p \in Blocks : ~heap[p].live => heap[p].cells = NoCells
    /\ (Initialised /\ Len(heap) >= 2) =>
           /\ Logical(data, heap) = Remaining
           /\ data.count = Len(Remaining)
           /\ data.sum = SumOf(Remaining)
           /\ data.sum_sq = SumSqOf(Remaining)

\* C20: after a final the aggregator behaves as empty and never touches the
\* released array: every later value or final query reports NULL, every
\* later inverse is a no-op, and a later numeric step initialises it again so
\* that count, sum and sum_sq reflect only the values inserted after the
\* final.
ResetAfterFinal == []AfterFinalInvariant /\ [][AfterFinalStep]_vars

\* after a final the struct still shows two values and a sum, and a
\* population variance queried then is NULL
ResetWitness ==
    /\ Released
    /\ data.count = 2 /\ data.sum # Zero
    /\ lastOp.fn = "value" /\ lastOp.stat = "variance_pop"
    /\ result = sqlite3_result_null

\* exactly one value is buffered
SingleValue == Initialised /\ data.count = 1

\* with one value the two population statistics compute 0 and the value
\* callbacks report it
SingleValueState ==
    SingleValue =>
        /\ calculate_variance_population(data) = Zero
        /\ calculate_stddev_population(data) = Zero
        /\ (lastOp.fn = "value" /\ lastOp.stat \in PopulationStats) =>
               result = sqlite3_result_double(Zero)

\* with one value the final callbacks of the population statistics report 0
SingleValueFinal ==
    (SingleValue /\ lastOp'.fn = "final" /\ lastOp'.stat \in PopulationStats) =>
        result' = sqlite3_result_double(Zero)

\* C21: with exactly one buffered value (every value of Args, exact
\* arithmetic) the population variance is defined, not NULL, and equals 0,
\* and so is the population standard deviation.
SingleValuePopulation == []SingleValueState /\ [][SingleValueFinal]_vars

\* the one value left after an eviction is a fraction and the population
\* standard deviation queried then is 0
SingleValueWitness ==
    /\ SingleValue
    /\ evicted >= 1
    /\ Logical(data, heap) = <<Fin(-3, 2)>>
    /\ lastOp.fn = "value" /\ lastOp.stat = "stddev_pop"
    /\ result = sqlite3_result_double(Zero)

\* growth has copied nothing before the first growth event, and after any
\* number of inserts less than twice as many values as were inserted
CopyBound ==
    Initialised =>
        /\ grown = 0 => ncopied = 0
        /\ Len(inserted) >= 1 => ncopied < 2 * Len(inserted)

\* a growth event copies count values; a callback that is not a growth event
\* copies none and leaves every cell where it is, but for the one cell an
\* insert writes
OnlyGrowthCopies ==
    /\ growth'.grew =>
           (growth'.copies = data.count /\ ncopied' = ncopied + data.count)
    /\ (Initialised /\ ~growth'.grew) => ncopied' = ncopied
    /\ (Initialised /\ ~growth'.grew /\ data'.values = data.values) =>
           \A i \in DOMAIN heap[data.values].cells :
               \/ heap'[data.values].cells[i] = heap[data.values].cells[i]
               \/ (lastOp'.fn = "step" /\ lastOp'.stat = "inserted" /\ i = data.tail)

\* C22: growth is the only operation that copies buffered values, and over
\* any sequence of inserts and evictions (with at least one insert) the
\* number of values copied by growth events so far is less than twice the
\* number of successful inserts so far.
AmortizedInsertion == []CopyBound /\ [][OnlyGrowthCopies]_vars

\* the buffer has grown twice, the second time after an eviction, and has
\* copied INITIAL_CAPACITY values and then twice as many
AmortizedWitness ==
    /\ Initialised
    /\ grown = 2 /\ evicted = 1
    /\ ncopied = INITIAL_CAPACITY + INITIAL_CAPACITY * CAPACITY_GROWTH_FACTOR
    /\ Len(inserted) = MaxLongRows

\* the capacity is INITIAL_CAPACITY * 2^grown and positive, and no step has
\* met an overflow of its doubling
CapacityState ==
    /\ lastOp.stat # "undefined"
    /\ Initialised =>
           /\ data.capacity = INITIAL_CAPACITY * Pow2(grown)
           /\ data.capacity > 0
           /\ data.capacity <= int_max

\* the capacity of a buffer never decreases
CapacityStep ==
    (Initialised /\ data'.values # NULLPTR) => data'.capacity >= data.capacity

\* C23 as stated: capacity is always INITIAL_CAPACITY * 2^g (g the number of
\* successful growth events) and never decreases, and the doubling computed
\* in the int never overflows nor yields a non-positive capacity, for any
\* number of growth events reachable by inserts.
CapacityInRange == []CapacityState /\ [][CapacityStep]_vars

====
